---- MODULE Spec2Model ----
(***************************************************************************)
(* A model of panel_site: the auth module (src/app/auth.py) with its two   *)
(* stores (a database handle over the tables of src/db/models.py, or the   *)
(* process-wide in-memory maps), and the dashboard builder                 *)
(* (src/app/main.py) over the data connector (src/db/hana_connector.py).   *)
(*                                                                         *)
(* The components are independent in the source (auth is not wired into    *)
(* the entry point), so each has its own specification over the same       *)
(* variables:                                                              *)
(*   SpecPw        hash_password / verify_password                         *)
(*   SpecUsers     create_user / authenticate_user                         *)
(*   SpecSessions  create_session / get_session / delete_session, clock    *)
(*   SpecDash      create_sales_dashboard, one step per statement group    *)
(* Spec is their union.                                                    *)
(***************************************************************************)
EXTENDS Integers, Sequences, FiniteSets, TLC

VARIABLES
    \* ---- library behaviour fixed for a run
    rejectsLong,        \* bcrypt >= 5 raises ValueError for a password of more
                        \* than 72 bytes; older releases silently truncate it
    \* ---- hash_password / verify_password called directly
    pw_p,               \* the password last given to hash_password
    pw_hash,            \* what hash_password returned (or that it raised)
    pw_q,               \* the password last given to verify_password
    pw_ok,              \* what verify_password returned (or that it raised)
    \* ---- the stores of the auth module
    store,              \* the db argument the caller passes in this run:
                        \* None, or a database handle
    IN_MEMORY_USERS,    \* auth.py's map username -> {email, password_hash}
    db_users,           \* the rows of table users
    ret,                \* the last auth call: its arguments and its outcome
    lastPw,             \* history: per store and username, the password of
                        \* the last create_user that returned
    fkEnforced,         \* whether the database enforces sessions.user_id's
                        \* ForeignKey('users.id') (SQLite does not unless told)
    now,                \* what datetime.utcnow() reads, in clock ticks
    IN_MEMORY_SESSIONS, \* auth.py's map session_id -> {user_id, expiry_timestamp}
    db_sessions,        \* the rows of table sessions
    deleted,            \* history: per store, the session ids whose
                        \* delete_session returned True and that no
                        \* create_session has drawn since
    wasDeleted,         \* history, kept where all five operations run on one
                        \* store: the session ids whose delete_session has
                        \* ever returned True
    \* ---- one call of create_sales_dashboard(user)
    d_pc,               \* where the call is: idle, connect, fetch, close,
                        \* return, done
    d_user,             \* its argument user
    hana_conn,          \* its local hana_conn
    sales_df,           \* its local sales_df
    sales_df_pane,      \* its local sales_df_pane
    dashboard_components, \* its local dashboard_components
    d_result,           \* what the call returned, or what it raised
    d_calls,            \* the calls it has made, in order
    close_error,        \* what hana_conn.close() raised in this call
    builds,             \* how many calls of create_sales_dashboard were made
    \* ---- the connector functions called directly
    g_env,              \* what os.getenv read in the last get_hana_connection
    g_made,             \* the ConnectionContext(...) calls that call made
    g_result,           \* what that call returned, or what it raised
    f_call              \* the last get_sales_data / get_customer_data call:
                        \* its argument and what it returned

pwVars == <<pw_p, pw_hash, pw_q, pw_ok>>

userVars == <<IN_MEMORY_USERS, db_users, lastPw>>

sessionVars == <<IN_MEMORY_SESSIONS, db_sessions, deleted>>

config == <<rejectsLong, store, fkEnforced>>

dashVars == <<d_pc, d_user, hana_conn, sales_df, sales_df_pane,
              dashboard_components, d_result, d_calls, close_error, builds>>

connVars == <<g_env, g_made, g_result, f_call>>

\* What no operation of auth.py writes.
otherVars == <<dashVars, connVars, wasDeleted>>

authVars == <<rejectsLong, pw_p, pw_hash, pw_q, pw_ok,
              store, IN_MEMORY_USERS, db_users, ret, lastPw,
              fkEnforced, now, IN_MEMORY_SESSIONS, db_sessions, deleted,
              wasDeleted>>

vars == <<authVars, otherVars>>

(***************************************************************************)
(* Bounds and input sets                                                   *)
(***************************************************************************)
\* Longest head and tail a drawn password is built from.
MaxShort == 1

\* bcrypt reads at most this many bytes of a password.
BcryptMaxBytes == 72

\* Code points a password is drawn from: 'a' (one UTF-8 byte) and
\* U+00E9 (two UTF-8 bytes).
Chars == {97, 233}

\* What bcrypt.gensalt() may draw.
Salts == {"s1", "s2"}

None == [t |-> "None"]

\* A database handle (a SQLAlchemy session), as the db argument.
DbHandle == [t |-> "DbSession"]

DbArgs == {None, DbHandle}

Usernames == {"alice", "bob"}

Emails == {"a@example.com", "b@example.com"}

\* The user_id arguments tried.
UserIds == {1, 2}

\* How many different values os.urandom is seen to draw.
NTokens == 2

\* os.urandom(16)
TokenBytes == 16

\* The clock runs from 0 to MaxTime ticks of half an hour.
MaxTime == 3

\* Rows are inserted into table sessions while the next id is at most this.
MaxRowId == NTokens

\* datetime.timedelta(hours=1), in ticks
TicksPerHour == 2

RECURSIVE StringsUpTo(_)
StringsUpTo(n) ==
    IF n = 0 THEN {<<>>}
    ELSE LET shorter == StringsUpTo(n - 1)
         IN  shorter \cup {Append(s, c) : s \in shorter, c \in Chars}

\* A run of 'a' as long as bcrypt's limit.
Fill == [i \in 1..BcryptMaxBytes |-> 97]

\* The passwords tried: short ones, and ones that reach past bcrypt's limit
\* and differ before it, after it, or both.
Passwords ==
    {pre \o mid \o suf : pre \in StringsUpTo(MaxShort),
                         mid \in {<<>>, Fill},
                         suf \in StringsUpTo(MaxShort)}

\* The passwords tried against the user stores: short ones, one of exactly
\* bcrypt's limit, and longer ones that differ only past the limit.
UserPasswords ==
    {<<97>>, <<233>>, Fill, Fill \o <<97>>, Fill \o <<233>>}

(***************************************************************************)
(* str.encode('utf-8') and bytes.decode('utf-8')                           *)
(***************************************************************************)
\* UTF-8 of one code point below U+0800.
Utf8Char(c) ==
    IF c < 128 THEN <<c>>
    ELSE <<192 + (c \div 64), 128 + (c % 64)>>

\* A variant that drops what is not ASCII, as encode('ascii', 'ignore') does.
RECURSIVE encode_ascii_ignore(_)
encode_ascii_ignore(s) ==
    IF s = <<>> THEN <<>>
    ELSE (IF Head(s) < 128 THEN <<Head(s)>> ELSE <<>>)
         \o encode_ascii_ignore(Tail(s))

\* UTF-8 of a string, code point by code point.
RECURSIVE Utf8(_)
Utf8(s) ==
    IF s = <<>> THEN <<>>
    ELSE Utf8Char(Head(s)) \o Utf8(Tail(s))

\* The encodings of the passwords tried, computed once.
Utf8OfPasswords == [p \in Passwords |-> Utf8(p)]

\* password.encode('utf-8')
encode_utf8(s) == Utf8OfPasswords[s]

(***************************************************************************)
(* bcrypt, as auth.py uses it.  A hash is the self-describing blob         *)
(* "$2b$<cost>$<salt><digest>": the model keeps the salt and, for the      *)
(* digest, the key bytes bcrypt read, i.e. the digest is taken to be       *)
(* collision-free.                                                         *)
(***************************************************************************)
ValueError == [t |-> "ValueError"]

Min(a, b) == IF a < b THEN a ELSE b

Prefix(bytes, n) == SubSeq(bytes, 1, Min(n, Len(bytes)))

Blob(salt, key) == [t |-> "bytes", salt |-> salt, key |-> key]

\* bcrypt.hashpw(password, salt)
hashpw(password_bytes, salt) ==
    IF Len(password_bytes) > BcryptMaxBytes
    THEN IF rejectsLong THEN ValueError
         ELSE Blob(salt, Prefix(password_bytes, BcryptMaxBytes))
    ELSE Blob(salt, password_bytes)

\* bcrypt.checkpw(password, hashed): hashes password with the salt embedded in
\* hashed and compares the two blobs.
checkpw(password_bytes, hashed) ==
    LET again == hashpw(password_bytes, hashed.salt)
    IN  IF again = ValueError THEN ValueError
        ELSE [t |-> "bool", v |-> again = hashed]

\* hash_password(password); the salt is what gensalt() drew.
hash_password(password, salt) ==
    hashpw(encode_utf8(password), salt)

\* verify_password(plain_password, hashed_password)
verify_password(plain_password, hashed_password) ==
    checkpw(encode_utf8(plain_password), hashed_password)

True == [t |-> "bool", v |-> TRUE]
False == [t |-> "bool", v |-> FALSE]

(***************************************************************************)
(* Initial state                                                           *)
(***************************************************************************)
\* No password has been given to a create_user that returned.
NoPw == <<0>>

NoCall == [op |-> "none"]

EmptyMap == [k \in {} |-> None]

\* No table has been fetched.
NoFrame == [columns |-> <<"-">>, rows |-> <<>>]

\* create_sales_dashboard has not returned.
NotReturned == [kind |-> "none"]

\* close() has not raised.
NoError == ""

\* An environment in which none of the four parameters is set.
NoEnviron ==
    [HANA_ADDRESS |-> None, HANA_PORT |-> None,
     HANA_USER |-> None, HANA_PASSWORD |-> None]

\* A row of table users that is there before the run.
ExistingUser ==
    [t |-> "User", id |-> 1, username |-> "alice", email |-> "a@example.com",
     password_hash |-> [t |-> "str", salt |-> "s1", key |-> <<97>>]]

\* The in-memory maps are empty when auth.py is loaded; a database the caller
\* hands in may already hold users.
Init ==
    /\ rejectsLong \in BOOLEAN
    /\ pw_p = <<>>
    /\ pw_hash = None
    /\ pw_q = <<>>
    /\ pw_ok = None
    /\ store \in DbArgs
    /\ IN_MEMORY_USERS = EmptyMap
    /\ db_users \in {{}, {ExistingUser}}
    /\ ret = NoCall
    /\ lastPw = [m \in {"mem", "db"} |-> [u \in Usernames |-> NoPw]]
    /\ fkEnforced \in BOOLEAN
    /\ now = 0
    /\ IN_MEMORY_SESSIONS = EmptyMap
    /\ db_sessions = {}
    /\ deleted = [m \in {"mem", "db"} |-> {}]
    /\ wasDeleted = {}
    /\ d_pc = "idle"
    /\ d_user = None
    /\ hana_conn = None
    /\ sales_df = NoFrame
    /\ sales_df_pane = None
    /\ dashboard_components = <<>>
    /\ d_result = NotReturned
    /\ d_calls = <<>>
    /\ close_error = NoError
    /\ builds = 0
    /\ g_env = NoEnviron
    /\ g_made = <<>>
    /\ g_result = NotReturned
    /\ f_call = NoCall

\* The password functions read no store.
InitPw ==
    Init /\ store = None /\ db_users = {} /\ ~fkEnforced

\* The user operations start from empty stores and read no foreign key.
InitUsers ==
    Init /\ db_users = {} /\ ~fkEnforced

\* The dashboard builder calls nothing of the auth module.
InitDash ==
    Init /\ ~rejectsLong /\ store = None /\ db_users = {} /\ ~fkEnforced

\* The session operations hash nothing; the users table is read only by a
\* database that enforces the foreign key of sessions.user_id.
InitSessions ==
    /\ Init
    /\ ~rejectsLong
    /\ store = None => ~fkEnforced
    /\ ~fkEnforced => db_users = {}

(***************************************************************************)
(* hash_password and verify_password called directly                       *)
(***************************************************************************)
HashPassword(p, salt) ==
    /\ pw_p' = p
    /\ pw_hash' = hash_password(p, salt)
    /\ pw_q' = <<>>
    /\ pw_ok' = None
    /\ UNCHANGED <<config, userVars, ret, now, sessionVars, otherVars>>

VerifyPassword(q) ==
    /\ pw_hash.t = "bytes"
    /\ pw_q' = q
    /\ pw_ok' = verify_password(q, pw_hash)
    /\ UNCHANGED <<config, pw_p, pw_hash, userVars, ret, now, sessionVars,
                   otherVars>>

NextPw ==
    \/ \E p \in Passwords, salt \in Salts : HashPassword(p, salt)
    \/ \E q \in Passwords : VerifyPassword(q)

SpecPw == InitPw /\ [][NextPw]_vars

(***************************************************************************)
(* C1                                                                      *)
(***************************************************************************)
\* The password's UTF-8 encoding is within what bcrypt reads.
Fits(p) == Len(encode_utf8(p)) <= BcryptMaxBytes

\* C1 as stated: for every password p and every other password q,
\* hash_password(p) yields a hash, verify_password(p, hash) is true and
\* verify_password(q, hash) is false, whatever the salt.
C1_AsStated ==
    /\ pw_hash # None => pw_hash.t = "bytes"
    /\ pw_ok # None => pw_ok = (IF pw_q = pw_p THEN True ELSE False)

\* C1 (amended): for passwords p and q whose UTF-8 encodings are at most 72
\* bytes long, hash_password(p) yields a hash, verify_password(p, hash) is
\* true and verify_password(q, hash) is false for q # p, whatever the salt.
C1_VerifyWithinLimit ==
    /\ (pw_hash # None /\ Fits(pw_p)) => pw_hash.t = "bytes"
    /\ (pw_ok # None /\ Fits(pw_p) /\ Fits(pw_q))
          => pw_ok = (IF pw_q = pw_p THEN True ELSE False)

\* Another password of the same length, both within the limit, was refused.
C1_Witness ==
    /\ pw_ok = False
    /\ pw_q # pw_p
    /\ Len(pw_q) = Len(pw_p)
    /\ Fits(pw_p) /\ Fits(pw_q)
    /\ pw_hash.t = "bytes" /\ pw_hash.salt = "s2"

(***************************************************************************)
(* create_user and authenticate_user                                       *)
(***************************************************************************)
IntegrityError == [t |-> "IntegrityError"]

\* bytes.decode('utf-8') and str.encode('utf-8') of a hash: the blob is ASCII,
\* so only its type changes.
decode_hash(hashed) == [hashed EXCEPT !.t = "str"]

encode_hash(text) == [text EXCEPT !.t = "bytes"]

\* A variant that forgets every other key.
MapPutAlone(map, key, value) == [k \in {key} |-> value]

\* A variant that regenerates: it drops the sessions the user held before.
MapPutRegenerating(map, key, value) ==
    [k \in {j \in DOMAIN map : map[j].user_id # value.user_id} \cup {key} |->
        IF k = key THEN value ELSE map[k]]

\* dict[key] = value
MapPut(map, key, value) ==
    [k \in DOMAIN map \cup {key} |-> IF k = key THEN value ELSE map[k]]

\* dict.get(key)
MapGet(map, key) == IF key \in DOMAIN map THEN map[key] ELSE None

\* The id the database gives the next row of a table.
NextId(rows) ==
    IF rows = {} THEN 1
    ELSE 1 + (CHOOSE i \in {r.id : r \in rows} : \A r \in rows : r.id <= i)

\* users.username and users.email are unique (models.py): whether the insert
\* of a row violates that.
UserClash(username, email) ==
    \E r \in db_users : r.username = username \/ r.email = email

\* db.query(User).filter(User.username == username).first()
FirstUser(username) ==
    IF \E r \in db_users : r.username = username
    THEN CHOOSE r \in db_users : r.username = username
    ELSE None

UserCall(op, username, password, result, verified) ==
    [op |-> op, username |-> username, password |-> password,
     result |-> result, verified |-> verified]

\* create_user(username, email, password, db); salt is what gensalt() drew.
create_user(username, email, password, salt, db) ==
    LET password_hash == hash_password(password, salt)
        call(result) == UserCall("create_user", username, password, result, FALSE)
    IN  IF password_hash = ValueError
        THEN /\ ret' = call(ValueError)
             /\ UNCHANGED userVars
        ELSE IF db # None
        THEN LET new_user == [t |-> "User", id |-> NextId(db_users),
                              username |-> username, email |-> email,
                              password_hash |-> decode_hash(password_hash)]
             IN  IF UserClash(username, email)
                 THEN /\ ret' = call(IntegrityError)
                      /\ UNCHANGED userVars
                 ELSE /\ db_users' = db_users \cup {new_user}
                      /\ ret' = call(new_user)
                      /\ lastPw' = [lastPw EXCEPT !["db"][username] = password]
                      /\ UNCHANGED IN_MEMORY_USERS
        ELSE LET entry == [t |-> "dict", email |-> email,
                           password_hash |-> decode_hash(password_hash)]
             IN  /\ IN_MEMORY_USERS' = MapPut(IN_MEMORY_USERS, username, entry)
                 /\ ret' = call(entry)
                 /\ lastPw' = [lastPw EXCEPT !["mem"][username] = password]
                 /\ UNCHANGED db_users

\* A variant that reports the record it found whatever the password.
authenticate_found(user, password) ==
    [result |-> user, verified |-> user # None]

\* A variant without the short circuit: the password is verified first (against
\* an empty hash when there is no record).
authenticate_eager(user, password) ==
    LET hashed == IF user = None THEN Blob("", <<>>)
                  ELSE encode_hash(user.password_hash)
        ok == verify_password(password, hashed)
    IN  [result |-> IF ok = ValueError THEN ValueError
                    ELSE IF user # None /\ ok.v THEN user ELSE None,
         verified |-> TRUE]

\* "if user and verify_password(...): return user" then "return None": the
\* outcome and whether verify_password was invoked.
authenticate_found_user(user, password) ==
    IF user = None
    THEN [result |-> None, verified |-> FALSE]
    ELSE LET ok == verify_password(password, encode_hash(user.password_hash))
         IN  [result |-> IF ok = ValueError THEN ValueError
                         ELSE IF ok.v THEN user ELSE None,
              verified |-> TRUE]

\* A variant that falls back to the in-memory map when the database has no
\* such user.
authenticate_user_fallback(username, password, db) ==
    LET row == IF db # None THEN FirstUser(username) ELSE None
        user == IF row # None THEN row
                ELSE MapGet(IN_MEMORY_USERS, username)
        out == authenticate_found_user(user, password)
    IN  /\ ret' = UserCall("authenticate_user", username, password,
                           out.result, out.verified)
        /\ UNCHANGED userVars

\* authenticate_user(username, password, db)
authenticate_user(username, password, db) ==
    LET user == IF db # None THEN FirstUser(username)
                ELSE MapGet(IN_MEMORY_USERS, username)
        out == authenticate_found_user(user, password)
    IN  /\ ret' = UserCall("authenticate_user", username, password,
                           out.result, out.verified)
        /\ UNCHANGED userVars

NextUsers ==
    \/ \E username \in Usernames, email \in Emails,
          password \in UserPasswords, salt \in Salts :
            /\ create_user(username, email, password, salt, store)
            /\ UNCHANGED <<config, pwVars, now, sessionVars, otherVars>>
    \/ \E username \in Usernames, password \in UserPasswords :
            /\ authenticate_user(username, password, store)
            /\ UNCHANGED <<config, pwVars, now, sessionVars, otherVars>>

SpecUsers == InitUsers /\ [][NextUsers]_vars

(***************************************************************************)
(* C5, C6                                                                  *)
(***************************************************************************)
StoreName(db) == IF db # None THEN "db" ELSE "mem"

\* The record the store holds for a username, or None.
StoredUser(db, username) ==
    IF db # None THEN FirstUser(username) ELSE MapGet(IN_MEMORY_USERS, username)

\* C5: authenticate_user returns None when the username is not in the store,
\* without invoking verify_password, and returns the same None when the
\* username is stored and verify_password returns false for the password
\* (authenticate_user leaves the stores alone, so the store read here is the
\* one the call read).
C5_SameAbsentValue ==
    ret.op = "authenticate_user" =>
        LET user == StoredUser(store, ret.username)
        IN  /\ user = None => (ret.result = None /\ ~ret.verified)
            /\ (user # None
                  /\ verify_password(ret.password,
                                     encode_hash(user.password_hash)) = False)
                 => (ret.result = None /\ ret.verified)

\* An unknown username was refused while another user is stored.
C5_Witness ==
    /\ ret.op = "authenticate_user"
    /\ StoredUser(store, ret.username) = None
    /\ \E u \in Usernames : StoredUser(store, u) # None
    /\ ret.result = None
    /\ ~ret.verified

\* C6 as stated: once create_user has returned for a username, in the same
\* store authenticate_user(username, p) returns the user's record if and only
\* if p is the password last given to such a create_user.
C6_AsStated ==
    (ret.op = "authenticate_user"
      /\ lastPw[StoreName(store)][ret.username] # NoPw)
    => (ret.result = StoredUser(store, ret.username)
          <=> ret.password = lastPw[StoreName(store)][ret.username])

\* C6 (amended): once create_user has returned for a username, in the same
\* store authenticate_user(username, p), for p and the stored password both
\* of at most 72 UTF-8 bytes, returns the user's record if p is the password
\* last given to such a create_user, and None otherwise.
C6_AuthenticateWithinLimit ==
    LET last == lastPw[StoreName(store)][ret.username]
    IN  (ret.op = "authenticate_user" /\ last # NoPw
          /\ Fits(ret.password) /\ Fits(last))
        => /\ StoredUser(store, ret.username) # None
           /\ ret.result = IF ret.password = last
                            THEN StoredUser(store, ret.username)
                            ELSE None

\* The stored password was accepted after the user had been created twice
\* (in memory) or beside another user (in the database).
C6_Witness ==
    /\ ret.op = "authenticate_user"
    /\ ret.password = lastPw[StoreName(store)][ret.username]
    /\ Fits(ret.password)
    /\ ret.result = StoredUser(store, ret.username)
    /\ ret.result # None
    /\ \A u \in Usernames : lastPw[StoreName(store)][u] # NoPw

(***************************************************************************)
(* create_session, get_session, delete_session                             *)
(***************************************************************************)
HexDigits ==
    <<"0", "1", "2", "3", "4", "5", "6", "7",
      "8", "9", "a", "b", "c", "d", "e", "f">>

\* bytes.hex(): two digits per byte, high nibble first.
hex(bytes) ==
    [i \in 1..(2 * Len(bytes)) |->
        IF i % 2 = 1 THEN HexDigits[(bytes[(i + 1) \div 2] \div 16) + 1]
        ELSE HexDigits[(bytes[i \div 2] % 16) + 1]]

\* What os.urandom(16) is seen to draw: 16 bytes, here all of one value.
RandomDraws ==
    {[i \in 1..TokenBytes |-> (k * 85) % 256] : k \in 0..(NTokens - 1)}

\* The session ids create_session can return.
Tokens == {hex(bytes) : bytes \in RandomDraws}

\* The session ids a caller presents: those, and one that is never drawn.
PresentedTokens == Tokens \cup {<<"x">>}

\* A variant that forgets the lifetime.
expiry_at_once(at) == at

\* datetime.utcnow() + datetime.timedelta(hours=1)
expiry_after(at) == at + TicksPerHour

\* A variant without the unique constraint.
SessionClashNever(session_id) == FALSE

\* sessions.session_id is unique (models.py).
SessionClash(session_id) ==
    \E r \in db_sessions : r.session_id = session_id

\* A variant in which no database checks the reference.
UserIdUnchecked(user_id) == FALSE

\* sessions.user_id references users.id, where the database enforces it.
UserIdRejected(user_id) ==
    fkEnforced /\ ~(\E u \in db_users : u.id = user_id)

\* db.query(Session).filter(Session.session_id == session_id).first()
FirstSession(session_id) ==
    IF \E r \in db_sessions : r.session_id = session_id
    THEN CHOOSE r \in db_sessions : r.session_id = session_id
    ELSE None

\* A variant that deletes nothing.
MapKeep(map, key) == map

\* dict without a key (del dict[key])
MapDel(map, key) == [k \in DOMAIN map \ {key} |-> map[k]]

\* A str value a call returns.
Str(text) == [t |-> "str", v |-> text]

\* A call and its outcome; for create_session, at is the creation time, the
\* utcnow() its expiry was computed from (0 for the other calls); stale is
\* history: whether the record delete_session removed had expired.
SessionCall(op, session_id, user_id, result, stale) ==
    [op |-> op, session_id |-> session_id, user_id |-> user_id,
     result |-> result, at |-> IF op = "create_session" THEN now ELSE 0,
     stale |-> stale]

\* create_session(user_id, db); random_bytes is what os.urandom(16) drew.
create_session(user_id, random_bytes, db) ==
    LET session_id == hex(random_bytes)
        expiry_timestamp == expiry_after(now)
        call(result) ==
            SessionCall("create_session", session_id, user_id, result, FALSE)
    IN  IF db # None
        THEN LET new_session == [t |-> "Session", id |-> NextId(db_sessions),
                                 session_id |-> session_id, user_id |-> user_id,
                                 expiry_timestamp |-> expiry_timestamp]
             IN  IF SessionClash(session_id) \/ UserIdRejected(user_id)
                 THEN /\ ret' = call(IntegrityError)
                      /\ UNCHANGED sessionVars
                 ELSE /\ db_sessions' = db_sessions \cup {new_session}
                      /\ ret' = call(Str(session_id))
                      /\ deleted' = [deleted EXCEPT !["db"] = @ \ {session_id}]
                      /\ UNCHANGED IN_MEMORY_SESSIONS
        ELSE /\ IN_MEMORY_SESSIONS' =
                    MapPut(IN_MEMORY_SESSIONS, session_id,
                           [t |-> "dict", user_id |-> user_id,
                            expiry_timestamp |-> expiry_timestamp])
             /\ ret' = call(Str(session_id))
             /\ deleted' = [deleted EXCEPT !["mem"] = @ \ {session_id}]
             /\ UNCHANGED db_sessions

\* A variant that also accepts a session expiring at this very instant.
unexpired_inclusive(session, at) == session.expiry_timestamp >= at

\* session.expiry_timestamp > datetime.datetime.utcnow()
unexpired(session, at) == session.expiry_timestamp > at

\* A variant that sweeps a record it finds expired.
get_session_sweeping(session_id, db) ==
    LET session == IF db # None THEN FirstSession(session_id)
                   ELSE MapGet(IN_MEMORY_SESSIONS, session_id)
        valid == session # None /\ unexpired(session, now)
    IN  /\ ret' = SessionCall("get_session", session_id, 0,
                              IF valid THEN session ELSE None, FALSE)
        /\ IF session # None /\ ~valid
           THEN /\ db_sessions' = db_sessions \ {session}
                /\ IN_MEMORY_SESSIONS' =
                      [k \in DOMAIN IN_MEMORY_SESSIONS \ {session_id} |->
                          IN_MEMORY_SESSIONS[k]]
                /\ UNCHANGED deleted
           ELSE UNCHANGED sessionVars

\* get_session(session_id, db)
get_session(session_id, db) ==
    LET session == IF db # None THEN FirstSession(session_id)
                   ELSE MapGet(IN_MEMORY_SESSIONS, session_id)
        result == IF session # None /\ unexpired(session, now)
                  THEN session ELSE None
    IN  /\ ret' = SessionCall("get_session", session_id, 0, result, FALSE)
        /\ UNCHANGED sessionVars

\* A variant that reports a removal it did not make.
delete_found_keep(session_id, db) ==
    /\ ret' = SessionCall("delete_session", session_id, 0, True, FALSE)
    /\ deleted' = [deleted EXCEPT ![IF db # None THEN "db" ELSE "mem"] =
                                        @ \cup {session_id}]
    /\ UNCHANGED <<IN_MEMORY_SESSIONS, db_sessions>>

\* delete_session's branch for a session that was found.
delete_found(session_id, db) ==
    /\ IF db # None
       THEN /\ db_sessions' = db_sessions \ {FirstSession(session_id)}
            /\ UNCHANGED IN_MEMORY_SESSIONS
       ELSE /\ IN_MEMORY_SESSIONS' = MapDel(IN_MEMORY_SESSIONS, session_id)
            /\ UNCHANGED db_sessions
    /\ LET session == IF db # None THEN FirstSession(session_id)
                       ELSE MapGet(IN_MEMORY_SESSIONS, session_id)
       IN  ret' = SessionCall("delete_session", session_id, 0, True,
                              session.expiry_timestamp <= now)
    /\ deleted' = [deleted EXCEPT ![IF db # None THEN "db" ELSE "mem"] =
                                        @ \cup {session_id}]

\* A variant that removes only what get_session would still return.
delete_session_if_valid(session_id, db) ==
    LET session == IF db # None THEN FirstSession(session_id)
                   ELSE MapGet(IN_MEMORY_SESSIONS, session_id)
    IN  IF session # None /\ unexpired(session, now)
        THEN delete_found(session_id, db)
        ELSE /\ ret' = SessionCall("delete_session", session_id, 0, False, FALSE)
             /\ UNCHANGED sessionVars

\* delete_session(session_id, db)
delete_session(session_id, db) ==
    LET found == IF db # None THEN FirstSession(session_id) # None
                 ELSE session_id \in DOMAIN IN_MEMORY_SESSIONS
    IN  IF found
        THEN delete_found(session_id, db)
        ELSE /\ ret' = SessionCall("delete_session", session_id, 0, False, FALSE)
             /\ UNCHANGED sessionVars

\* Time passes between calls.
Tick ==
    /\ now < MaxTime
    /\ now' = now + 1
    /\ UNCHANGED <<config, pwVars, userVars, ret, sessionVars, otherVars>>

NextSessions ==
    \/ \E user_id \in UserIds, random_bytes \in RandomDraws :
            /\ store # None => NextId(db_sessions) <= MaxRowId
            /\ create_session(user_id, random_bytes, store)
            /\ UNCHANGED <<config, pwVars, userVars, now, otherVars>>
    \/ \E session_id \in PresentedTokens :
            /\ get_session(session_id, store)
            /\ UNCHANGED <<config, pwVars, userVars, now, otherVars>>
    \/ \E session_id \in PresentedTokens :
            /\ delete_session(session_id, store)
            /\ UNCHANGED <<config, pwVars, userVars, now, otherVars>>
    \/ Tick

SpecSessions == InitSessions /\ [][NextSessions]_vars

(***************************************************************************)
(* C2, C3, C4                                                              *)
(***************************************************************************)
\* The record the store holds for a session id, or None.
StoredSession(db, session_id) ==
    IF db # None THEN FirstSession(session_id)
    ELSE MapGet(IN_MEMORY_SESSIONS, session_id)

\* The session ids the store holds.
SessionIds(db) ==
    IF db # None THEN {r.session_id : r \in db_sessions}
    ELSE DOMAIN IN_MEMORY_SESSIONS

\* C2: in either store, when create_session(user_id) has returned a token and
\* the next call is get_session with that token, made less than an hour after
\* the creation (at once included), get_session returns a record whose
\* user_id is the one given to create_session and whose expiry is the
\* creation time plus one hour, which is later than the creation time.
C2_CreateThenGet ==
    [][(/\ ret.op = "create_session"
        /\ ret.result.t = "str"
        /\ ret'.op = "get_session"
        /\ ret'.session_id = ret.result.v
        /\ now' - ret.at < TicksPerHour)
       => (/\ ret'.result # None
           /\ ret'.result.user_id = ret.user_id
           /\ ret'.result.expiry_timestamp = ret.at + TicksPerHour
           /\ ret'.result.expiry_timestamp > ret.at)]_vars

\* get_session returned, in a database that enforces the foreign key, a
\* record created at the instant of the lookup.
C2_Witness ==
    /\ ret.op = "get_session"
    /\ ret.result # None
    /\ ret.result.expiry_timestamp = now + TicksPerHour
    /\ ret.result.user_id = 1
    /\ store # None /\ fkEnforced

\* C3: get_session returns the stored record when the token is stored and its
\* expiry is strictly later than the time of the call, and None in every
\* other case: the token is not stored, or its expiry is at or before the
\* time of the call; it leaves the stores as they were.
C3_GetSession ==
    [][(ret'.op = "get_session" /\ ret' # ret)
       => LET session == StoredSession(store, ret'.session_id)
          IN  /\ ret'.result = IF session # None
                                   /\ session.expiry_timestamp > now
                               THEN session ELSE None
              /\ IN_MEMORY_SESSIONS' = IN_MEMORY_SESSIONS
              /\ db_sessions' = db_sessions]_vars

\* A stored session was looked up at the very instant it expires.
C3_Witness ==
    /\ ret.op = "get_session"
    /\ StoredSession(store, ret.session_id) # None
    /\ StoredSession(store, ret.session_id).expiry_timestamp = now
    /\ ret.result = None

\* C4: delete_session(token) on a stored token returns True and removes that
\* record and no other; on a token that is not stored it returns False and
\* leaves the store as it was; and on a token whose earlier delete_session
\* returned True, with no create_session of that token since, it returns
\* False.
C4_DeleteOnce ==
    [][(ret'.op = "delete_session" /\ ret' # ret)
       => LET token == ret'.session_id
          IN  /\ IF token \in SessionIds(store)
                 THEN /\ ret'.result = True
                      /\ SessionIds(store)' = SessionIds(store) \ {token}
                      /\ \A other \in SessionIds(store)' :
                            StoredSession(store, other)'
                              = StoredSession(store, other)
                 ELSE /\ ret'.result = False
                      /\ IN_MEMORY_SESSIONS' = IN_MEMORY_SESSIONS
                      /\ db_sessions' = db_sessions
              /\ token \in deleted[StoreName(store)] => ret'.result = False]_vars

\* A second delete_session of a token was refused while another session is
\* still stored.
C4_Witness ==
    /\ ret.op = "delete_session"
    /\ ret.result = False
    /\ ret.session_id \in deleted[StoreName(store)]
    /\ SessionIds(store) # {}

(***************************************************************************)
(* C16, C17                                                                *)
(***************************************************************************)
\* The step is a call of op (a call that repeats the last one with the same
\* outcome and leaves every variable as it was is a stuttering step).
Called(op) == ret'.op = op /\ ret' # ret

\* The token a create_session call returned, if it returned one.
ReturnedToken(call) ==
    IF call.result.t = "str" THEN {call.result.v} ELSE {}

\* What get_session would return for a token: its record if that is stored
\* and unexpired.
ValidSession(db, session_id) ==
    LET session == StoredSession(db, session_id)
    IN  IF session # None /\ session.expiry_timestamp > now
        THEN session ELSE None

\* C16 as stated: after create_session(u), called while u holds an unexpired
\* session with token t, get_session(t) still returns the earlier record.
C16_AsStated ==
    [][Called("create_session")
       => \A t \in SessionIds(store) :
            LET earlier == ValidSession(store, t)
            IN  (earlier # None /\ earlier.user_id = ret'.user_id)
                  => ValidSession(store, t)' = earlier]_vars

\* C16 (amended): after create_session(u), called while u holds an unexpired
\* session with token t, get_session(t) still returns the earlier record
\* whenever the call returned a token other than t, and whenever it raised;
\* when the in-memory call draws t itself, the record of t is the new one.
C16_EarlierSessionsKept ==
    [][Called("create_session")
       => \A t \in SessionIds(store) :
            LET earlier == ValidSession(store, t)
            IN  (earlier # None /\ earlier.user_id = ret'.user_id)
                  => IF t \in ReturnedToken(ret')
                     THEN /\ store = None
                          /\ ValidSession(store, t)' =
                                [t |-> "dict", user_id |-> ret'.user_id,
                                 expiry_timestamp |-> now + TicksPerHour]
                     ELSE ValidSession(store, t)' = earlier]_vars

\* One user holds two unexpired sessions at once, the second just created.
C16_Witness ==
    /\ ret.op = "create_session"
    /\ ret.result.t = "str"
    /\ \E t \in SessionIds(store) \ {ret.result.v} :
          /\ ValidSession(store, t) # None
          /\ ValidSession(store, t).user_id = ret.user_id
          /\ ValidSession(store, ret.result.v) # None
          /\ ValidSession(store, t).expiry_timestamp
                < ValidSession(store, ret.result.v).expiry_timestamp

\* C17: get_session never modifies the session store: whether it returns a
\* record or None (token unknown or expired), both stores hold after the call
\* what they held before; and a record leaves the store only in a
\* delete_session of its token that returns True, so an expired record
\* stays until then.
C17_GetLeavesStore ==
    [][/\ Called("get_session")
          => /\ IN_MEMORY_SESSIONS' = IN_MEMORY_SESSIONS
             /\ db_sessions' = db_sessions
       /\ \A t \in SessionIds(store) \ SessionIds(store)' :
             /\ ret'.op = "delete_session"
             /\ ret'.session_id = t
             /\ ret'.result = True]_vars

\* get_session returned None for a record that expired some time ago and is
\* still stored.
C17_Witness ==
    /\ ret.op = "get_session"
    /\ ret.result = None
    /\ StoredSession(store, ret.session_id) # None
    /\ StoredSession(store, ret.session_id).expiry_timestamp < now

(***************************************************************************)
(* C18, C19                                                                *)
(***************************************************************************)
\* C18: delete_session on a token whose record is stored but has expired,
\* so that get_session returns None for it, returns True and removes the
\* record: the outcome follows presence in the store, not validity.
C18_DeleteExpired ==
    [][Called("delete_session")
       => \A token \in {ret'.session_id} :
            (StoredSession(store, token) # None
               /\ ValidSession(store, token) = None)
              => /\ ret'.result = True
                 /\ ret'.stale
                 /\ token \notin SessionIds(store)'
                 /\ StoredSession(store, token)' = None]_vars

\* delete_session returned True for a record that had expired, and the
\* record is gone.
C18_Witness ==
    /\ ret.op = "delete_session"
    /\ ret.result = True
    /\ ret.stale
    /\ StoredSession(store, ret.session_id) = None

\* C19 as stated: the token create_session returns was not in the store
\* before the call, and every session record stored before the call is
\* unchanged after it.
C19_AsStated ==
    [][(Called("create_session") /\ ret'.result.t = "str")
       => /\ ret'.result.v \notin SessionIds(store)
          /\ \A t \in SessionIds(store) :
                StoredSession(store, t)' = StoredSession(store, t)]_vars

\* C19 (amended): with a database handle, the token create_session returns
\* was not in the store before the call (a draw that is stored already
\* raises IntegrityError) and every record stored before is unchanged after
\* the call, returned or raised; in the in-memory map every record stored
\* under another token is unchanged, and a draw that is stored already puts
\* the new record in the place of the old one.
C19_NoOverwriteInDatabase ==
    [][Called("create_session")
       => IF store # None
          THEN /\ \A t \in ReturnedToken(ret') : t \notin SessionIds(store)
               /\ \A t \in SessionIds(store) :
                     StoredSession(store, t)' = StoredSession(store, t)
          ELSE /\ ret'.result.t = "str"
               /\ \A t \in SessionIds(store) \ {ret'.result.v} :
                     StoredSession(store, t)' = StoredSession(store, t)
               /\ \A t \in ReturnedToken(ret') :
                     StoredSession(store, t)' =
                       [t |-> "dict", user_id |-> ret'.user_id,
                        expiry_timestamp |-> now + TicksPerHour]]_vars

\* A database without the foreign key refused a draw that was stored
\* already, and the earlier record of another user is still there.
C19_Witness ==
    /\ store # None /\ ~fkEnforced
    /\ ret.op = "create_session"
    /\ ret.result = IntegrityError
    /\ StoredSession(store, ret.session_id) # None
    /\ StoredSession(store, ret.session_id).user_id # ret.user_id

(***************************************************************************)
(* All five store operations of auth.py on one store                       *)
(***************************************************************************)
\* The passwords tried here: two short ones.
AuthPasswords == {<<97>>, <<233>>}

\* The draw of os.urandom seen here: one value, drawn again and again.
AuthDraws == {bytes \in RandomDraws : bytes[1] = 0}

\* The stores start empty; a database may or may not enforce the foreign key.
InitAuth ==
    /\ Init
    /\ ~rejectsLong
    /\ db_users = {}
    /\ store = None => ~fkEnforced

NextAuth ==
    \/ \E username \in Usernames, email \in Emails,
          password \in AuthPasswords, salt \in Salts :
            /\ create_user(username, email, password, salt, store)
            /\ UNCHANGED <<config, pwVars, now, sessionVars, otherVars>>
    \/ \E username \in Usernames, password \in AuthPasswords :
            /\ authenticate_user(username, password, store)
            /\ UNCHANGED <<config, pwVars, now, sessionVars, otherVars>>
    \/ \E user_id \in UserIds, random_bytes \in AuthDraws :
            /\ create_session(user_id, random_bytes, store)
            /\ UNCHANGED <<config, pwVars, userVars, now, otherVars>>
    \/ \E random_bytes \in AuthDraws :
            /\ get_session(hex(random_bytes), store)
            /\ UNCHANGED <<config, pwVars, userVars, now, otherVars>>
    \/ \E random_bytes \in AuthDraws :
            /\ delete_session(hex(random_bytes), store)
            /\ wasDeleted' = IF ret'.result = True
                             THEN wasDeleted \cup {hex(random_bytes)}
                             ELSE wasDeleted
            /\ UNCHANGED <<config, pwVars, userVars, now, dashVars, connVars>>

SpecAuth == InitAuth /\ [][NextAuth]_vars

(***************************************************************************)
(* C14                                                                     *)
(***************************************************************************)
\* C14 as stated: no auth operation updates or deletes a user record that is
\* in its store: after every step it is still there with the email and the
\* password hash it had.
C14_AsStated ==
    [][\A username \in Usernames :
          StoredUser(store, username) # None
            => StoredUser(store, username)' = StoredUser(store, username)]_vars

\* C14 (amended): no auth operation deletes a user record, and in the
\* database no auth operation updates one; in the in-memory map a record
\* changes only when create_user is called again with its username, which
\* puts the new email and password hash in its place.
C14_UsersKept ==
    [][\A username \in Usernames :
          LET before == StoredUser(store, username)
              after == StoredUser(store, username)'
          IN  before # None
                => /\ after # None
                   /\ store # None => after = before
                   /\ after # before
                        => /\ ret'.op = "create_user"
                           /\ ret'.username = username
                           /\ ret'.result = after]_vars

\* Two users are in the database after a session was created and deleted
\* again.
C14_Witness ==
    /\ store # None
    /\ Cardinality(db_users) = 2
    /\ ret.op = "delete_session"
    /\ ret.result = True

(***************************************************************************)
(* C15                                                                     *)
(***************************************************************************)
\* Every row of table sessions has the id of a row of table users.
SessionsReferenceUsers ==
    \A r \in db_sessions : \E u \in db_users : u.id = r.user_id

\* C15 as stated: with a database handle, in every reachable state each
\* session's user_id is the id of an existing user.
C15_AsStated ==
    store # None => SessionsReferenceUsers

\* C15 (amended): in a database that enforces the foreign key declared on
\* sessions.user_id, in every reachable state each session's user_id is the
\* id of an existing user; in the in-memory map nothing is checked:
\* create_session returns a token for any user_id and stores the session
\* under it.
C15_ReferenceWhereEnforced ==
    /\ []((store # None /\ fkEnforced) => SessionsReferenceUsers)
    /\ [][(store = None /\ ret'.op = "create_session" /\ ret' # ret)
           => /\ ret'.result.t = "str"
              /\ ret'.result.v \in DOMAIN IN_MEMORY_SESSIONS'
              /\ IN_MEMORY_SESSIONS'[ret'.result.v].user_id = ret'.user_id]_vars

\* An enforcing database holds a session of the second user created.
C15_Witness ==
    /\ store # None /\ fkEnforced
    /\ \E r \in db_sessions : r.user_id = 2
    /\ SessionsReferenceUsers

(***************************************************************************)
(* C20                                                                     *)
(***************************************************************************)
\* C20 as stated: once delete_session(t) has returned True, get_session(t)
\* returns None in every later state, whatever auth operations follow.
C20_AsStated ==
    (ret.op = "get_session" /\ ret.session_id \in wasDeleted)
        => ret.result = None

\* C20 (amended): once delete_session(t) has returned True, get_session(t)
\* returns None for as long as no create_session draws t again.
C20_DeletedStaysAbsent ==
    [][(Called("get_session")
          /\ ret'.session_id \in deleted[StoreName(store)])
       => ret'.result = None]_vars

\* get_session returned None for a deleted token, well within the hour of
\* its creation, in a database in which users were created.
C20_Witness ==
    /\ ret.op = "get_session"
    /\ ret.result = None
    /\ ret.session_id \in deleted[StoreName(store)]
    /\ ret.session_id \in wasDeleted
    /\ store # None
    /\ db_users # {}

(***************************************************************************)
(* The five store operations with the db argument chosen call by call      *)
(***************************************************************************)
\* The email each user signs up with.
EmailOf == [name \in Usernames |->
               IF name = "alice" THEN "a@example.com" ELSE "b@example.com"]

\* The salt bcrypt.gensalt() is seen to draw here.
ModeSalts == {salt \in Salts : salt = "s1"}

\* Both stores start empty; no call has been made.
InitModes ==
    /\ Init
    /\ ~rejectsLong
    /\ db_users = {}
    /\ store = None

\* Here store is the db argument of the call just made.
NextModes ==
    \/ \E db \in DbArgs, username \in Usernames, password \in AuthPasswords,
          salt \in ModeSalts :
            /\ store' = db
            /\ create_user(username, EmailOf[username], password, salt, db)
            /\ UNCHANGED <<rejectsLong, fkEnforced, pwVars, now, sessionVars,
                           otherVars>>
    \/ \E db \in DbArgs, username \in Usernames, password \in AuthPasswords :
            /\ store' = db
            /\ authenticate_user(username, password, db)
            /\ UNCHANGED <<rejectsLong, fkEnforced, pwVars, now, sessionVars,
                           otherVars>>
    \/ \E db \in DbArgs, user_id \in UserIds, random_bytes \in AuthDraws :
            /\ store' = db
            /\ create_session(user_id, random_bytes, db)
            /\ UNCHANGED <<rejectsLong, fkEnforced, pwVars, userVars, now,
                           otherVars>>
    \/ \E db \in DbArgs, random_bytes \in AuthDraws :
            /\ store' = db
            /\ get_session(hex(random_bytes), db)
            /\ UNCHANGED <<rejectsLong, fkEnforced, pwVars, userVars, now,
                           otherVars>>
    \/ \E db \in DbArgs, random_bytes \in AuthDraws :
            /\ store' = db
            /\ delete_session(hex(random_bytes), db)
            /\ UNCHANGED <<rejectsLong, fkEnforced, pwVars, userVars, now,
                           otherVars>>

SpecModes == InitModes /\ [][NextModes]_vars

(***************************************************************************)
(* C21                                                                     *)
(***************************************************************************)
\* C21: the two store modes are isolated.  A call with a database handle
\* leaves IN_MEMORY_USERS and IN_MEMORY_SESSIONS as they were, and a call
\* without one leaves both tables as they were.  What a call returns does
\* not depend on the other store: a user or a session that is in the other
\* store only is absent (authenticate_user and get_session return None,
\* delete_session returns False), and a user or a token that is in the other
\* store only does not make create_user or create_session with a handle
\* fail.
C21_ModesIsolated ==
    [][/\ store' # None
          => /\ IN_MEMORY_USERS' = IN_MEMORY_USERS
             /\ IN_MEMORY_SESSIONS' = IN_MEMORY_SESSIONS
       /\ store' = None
          => /\ db_users' = db_users
             /\ db_sessions' = db_sessions
       /\ \A db \in {store'}, call \in {ret'} :
            /\ (call.op = "authenticate_user"
                  /\ StoredUser(db, call.username) = None)
                 => call.result = None
            /\ (call.op = "get_session"
                  /\ StoredSession(db, call.session_id) = None)
                 => call.result = None
            /\ (call.op = "delete_session"
                  /\ StoredSession(db, call.session_id) = None)
                 => call.result = False
            /\ (call.op = "create_user" /\ StoredUser(db, call.username) = None)
                 => /\ call.result # IntegrityError
                    /\ StoredUser(db, call.username)' = call.result
            /\ (call.op = "create_session" /\ ~fkEnforced
                  /\ StoredSession(db, call.session_id) = None)
                 => /\ call.result.t = "str"
                    /\ StoredSession(db, call.session_id)' # None]_vars

\* authenticate_user with a handle returned None for the password a user
\* was created with in the in-memory map, that user being in no table; and
\* a session of the in-memory map is in no table either.
C21_Witness ==
    /\ store # None
    /\ ret.op = "authenticate_user"
    /\ ret.result = None
    /\ ret.username \in DOMAIN IN_MEMORY_USERS
    /\ ret.password = lastPw["mem"][ret.username]
    /\ FirstUser(ret.username) = None
    /\ IN_MEMORY_SESSIONS # EmptyMap
    /\ db_sessions = {}

(***************************************************************************)
(* The data connector, as the dashboard builder sees it                    *)
(***************************************************************************)
\* pd.DataFrame()
EmptyFrame == [columns |-> <<>>, rows |-> <<>>]

\* pd.DataFrame(mock_data) of get_sales_data
MockSalesFrame ==
    [columns |-> <<"OrderID", "Product", "Quantity", "Price">>,
     rows |-> << <<1, "Laptop", 1, 1200>>, <<2, "Mouse", 2, 25>>,
                 <<3, "Keyboard", 1, 75>>, <<4, "Monitor", 1, 300>>,
                 <<5, "Webcam", 3, 50>> >>]

\* DataFrame.empty: an axis of length 0
empty(df) == Len(df.columns) = 0 \/ Len(df.rows) = 0

\* get_sales_data(cc)
get_sales_data(cc) ==
    IF cc = None THEN EmptyFrame ELSE MockSalesFrame

\* The handles get_hana_connection is seen to return.
Handles ==
    {[t |-> "ConnectionContext", id |-> "cc1"],
     [t |-> "ConnectionContext", id |-> "cc2"]}

\* What an exception says.
ErrorTexts == {"Failed to close connection", "Connection Failed Error"}

Raised(text) == [t |-> "raise", error |-> text]

\* create_sales_dashboard reaches the connector through the module
\* hana_connector at the time of the call, where the tests put doubles: what
\* a callee does is an input of the build.  What get_hana_connection does:
\* returns None, returns a handle, or raises.
ConnectOutcomes ==
    {None} \cup Handles \cup {Raised(e) : e \in ErrorTexts}

\* Tables a double of get_sales_data returns: one with a header and no row,
\* and the one of test_main.py.
DoubleFrames ==
    {EmptyFrame,
     [columns |-> <<"Sales", "Product">>, rows |-> <<>>],
     [columns |-> <<"Sales", "Product">>,
      rows |-> << <<100, "A">>, <<200, "B">> >>]}

\* What hana_connector.get_sales_data(hana_conn) does: what the function of
\* hana_connector.py returns, what a double returns, or it raises.
FetchOutcomes(cc) ==
    {[t |-> "frame", df |-> df] : df \in {get_sales_data(cc)} \cup DoubleFrames}
    \cup {Raised(e) : e \in ErrorTexts}

\* What hana_conn.close() does: returns, or raises an Exception.
CloseOutcomes ==
    {[t |-> "ok"]} \cup {Raised(e) : e \in ErrorTexts}

(***************************************************************************)
(* create_sales_dashboard(user)                                            *)
(***************************************************************************)
\* The users tried: none, and two MockUser objects.
DashUsers ==
    {None, [t |-> "MockUser", username |-> "testuser"],
           [t |-> "MockUser", username |-> "alice"]}

\* How many calls of create_sales_dashboard a run makes.
MaxBuilds == 2

\* A Panel component: a Markdown, Alert or DataFrame pane.
Component(kind, alert_type, text, df, show_index) ==
    [kind |-> kind, alert_type |-> alert_type, text |-> text,
     df |-> df, show_index |-> show_index]

Markdown(text) == Component("Markdown", "", text, NoFrame, "")

Alert(text, alert_type) == Component("Alert", alert_type, text, NoFrame, "")

ErrorView == Markdown(<<"## Error: No user context provided.">>)

Title(user) == Markdown(<<"# Sales Dashboard for ", user.username>>)

DangerAlert ==
    Alert(<<"Error: Could not connect to SAP HANA. Please check connection details or environment variables.">>,
          "danger")

SuccessAlert == Alert(<<"Successfully connected to SAP HANA.">>, "success")

NoDataAlert ==
    Alert(<<"No sales data available or an error occurred during fetching.">>,
          "warning")

CloseAlert(e) ==
    Alert(<<"Warning: Could not close SAP HANA connection: ", e>>, "warning")

\* pn.pane.DataFrame(pd.DataFrame(), name="Sales Data", width=800, height=300)
EmptyPane == Component("DataFrame", "", <<"Sales Data">>, EmptyFrame, "")

\* pn.pane.DataFrame(sales_df, name="Sales Data", ..., show_index=False)
TablePane(df) == Component("DataFrame", "", <<"Sales Data">>, df, "False")

\* pn.Column(*dashboard_components, sizing_mode="stretch_both")
Column(objects) ==
    [kind |-> "Column", objects |-> objects, sizing_mode |-> "stretch_both"]

\* A variant that shows an empty table whatever was fetched.
pane_blank(df) == EmptyPane

\* The pane chosen for the fetched table (main.py, lines 57-64).
pane_for(df) == IF empty(df) THEN EmptyPane ELSE TablePane(df)

\* A variant that fetches whether or not there is a connection.
after_connect_always_fetch(conn) == "fetch"

\* Where the build goes once get_hana_connection has returned:
\* "if hana_conn is None: ... else: ...".
after_connect(conn) == IF conn = None THEN "return" ELSE "fetch"

\* A variant that swallows the failure of close() without a notice.
after_close_silent(components, outcome) == components

\* "try: hana_conn.close() / except Exception as e: ... append(Alert(...))"
after_close(components, outcome) ==
    IF outcome.t = "raise"
    THEN Append(components, CloseAlert(outcome.error))
    ELSE components

\* Lines 20-32: the call, and the test of user.
Build(user) ==
    /\ d_pc \in {"idle", "done"}
    /\ builds < MaxBuilds
    /\ builds' = builds + 1
    /\ d_user' = user
    /\ hana_conn' = None
    /\ sales_df' = NoFrame
    /\ sales_df_pane' = None
    /\ d_calls' = <<>>
    /\ close_error' = NoError
    /\ IF user = None
       THEN /\ d_result' = ErrorView
            /\ dashboard_components' = <<>>
            /\ d_pc' = "done"
       ELSE /\ d_result' = NotReturned
            /\ dashboard_components' = <<Title(user)>>
            /\ d_pc' = "connect"
    /\ UNCHANGED <<authVars, connVars>>

\* Lines 41-53: get_hana_connection() and the notice that follows.
Connect(outcome) ==
    /\ d_pc = "connect"
    /\ d_calls' = Append(d_calls, "get_hana_connection")
    /\ IF outcome.t = "raise"
       THEN /\ d_result' = outcome
            /\ d_pc' = "done"
            /\ UNCHANGED <<hana_conn, dashboard_components, sales_df_pane>>
       ELSE /\ hana_conn' = outcome
            /\ d_pc' = after_connect(outcome)
            /\ IF outcome = None
               THEN /\ dashboard_components' =
                          Append(dashboard_components, DangerAlert)
                    /\ sales_df_pane' = EmptyPane
               ELSE /\ dashboard_components' =
                          Append(dashboard_components, SuccessAlert)
                    /\ UNCHANGED sales_df_pane
            /\ UNCHANGED d_result
    /\ UNCHANGED <<authVars, connVars, d_user, sales_df, close_error, builds>>

\* Lines 55-64: get_sales_data(hana_conn) and the pane for its table.
Fetch(outcome) ==
    /\ d_pc = "fetch"
    /\ d_calls' = Append(d_calls, "get_sales_data")
    /\ IF outcome.t = "raise"
       THEN /\ d_result' = outcome
            /\ d_pc' = "done"
            /\ UNCHANGED <<sales_df, dashboard_components, sales_df_pane>>
       ELSE /\ sales_df' = outcome.df
            /\ dashboard_components' =
                  IF empty(outcome.df)
                  THEN Append(dashboard_components, NoDataAlert)
                  ELSE dashboard_components
            /\ sales_df_pane' = pane_for(outcome.df)
            /\ d_pc' = "close"
            /\ UNCHANGED d_result
    /\ UNCHANGED <<authVars, connVars, d_user, hana_conn, close_error, builds>>

\* Lines 67-74: hana_conn.close() in its try.
Close(outcome) ==
    /\ d_pc = "close"
    /\ d_calls' = Append(d_calls, "close")
    /\ close_error' = IF outcome.t = "raise" THEN outcome.error ELSE NoError
    /\ dashboard_components' = after_close(dashboard_components, outcome)
    /\ d_pc' = "return"
    /\ UNCHANGED <<authVars, connVars, d_user, hana_conn, sales_df, sales_df_pane,
                   d_result, builds>>

\* Lines 77-80: the pane is appended and the column returned.
Return ==
    /\ d_pc = "return"
    /\ dashboard_components' = Append(dashboard_components, sales_df_pane)
    /\ d_result' = Column(dashboard_components')
    /\ d_pc' = "done"
    /\ UNCHANGED <<authVars, connVars, d_user, hana_conn, sales_df, sales_df_pane,
                   d_calls, close_error, builds>>

NextDash ==
    \/ \E user \in DashUsers : Build(user)
    \/ \E outcome \in ConnectOutcomes : Connect(outcome)
    \/ \E outcome \in FetchOutcomes(hana_conn) : Fetch(outcome)
    \/ \E outcome \in CloseOutcomes : Close(outcome)
    \/ Return

SpecDash == InitDash /\ [][NextDash]_vars

(***************************************************************************)
(* C7, C8, C9, C10                                                         *)
(***************************************************************************)
\* The call has returned a view (it has not raised).
Returned == d_pc = "done" /\ "kind" \in DOMAIN d_result

\* The notice of a failed close(), if close() failed in this call.
CloseNotice ==
    IF close_error = NoError THEN <<>> ELSE <<CloseAlert(close_error)>>

\* How often a callee was called in this call.
Count(callee) == Cardinality({i \in DOMAIN d_calls : d_calls[i] = callee})

\* C7: what create_sales_dashboard returns is one of four views, fixed by its
\* inputs: for no user, the error view alone; for a connection that is None,
\* the title, a danger notice and an empty table; for a handle and an empty
\* fetched table, the title, a success notice, a warning notice and an empty
\* table; for a handle and a non-empty fetched table, the title, a success
\* notice and a table pane holding the fetched table as it was fetched (in
\* the last two, a notice of a failed close() comes before the table).
C7_FourOutcomes ==
    Returned =>
        IF d_user = None
        THEN d_result = ErrorView /\ d_calls = <<>>
        ELSE IF hana_conn = None
        THEN d_result = Column(<<Title(d_user), DangerAlert, EmptyPane>>)
        ELSE IF empty(sales_df)
        THEN d_result = Column(<<Title(d_user), SuccessAlert, NoDataAlert>>
                               \o CloseNotice \o <<EmptyPane>>)
        ELSE d_result = Column(<<Title(d_user), SuccessAlert>> \o CloseNotice
                               \o <<[kind |-> "DataFrame", alert_type |-> "",
                                     text |-> <<"Sales Data">>,
                                     df |-> sales_df,
                                     show_index |-> "False"]>>)

\* The table of get_sales_data was fetched over a handle, close() returned,
\* and the view holds that table.
C7_Witness ==
    /\ Returned
    /\ d_user # None
    /\ hana_conn \in Handles
    /\ sales_df = MockSalesFrame
    /\ close_error = NoError
    /\ d_result.kind = "Column"
    /\ Len(d_result.objects) = 3
    /\ d_result.objects[3].df = MockSalesFrame

C9_CloseFailureKeepsView ==
    (d_pc = "done" /\ close_error # NoError) =>
        LET pane == IF empty(sales_df) THEN EmptyPane ELSE TablePane(sales_df)
            head == IF empty(sales_df)
                    THEN <<Title(d_user), SuccessAlert, NoDataAlert>>
                    ELSE <<Title(d_user), SuccessAlert>>
        IN  /\ Returned
            /\ sales_df_pane = pane
            /\ d_result =
                 Column(head \o <<CloseAlert(close_error)>> \o <<pane>>)

\* close() failed after a table with rows was fetched, and the view returned
\* ends with the populated table.
C9_Witness ==
    /\ Returned
    /\ close_error \in ErrorTexts
    /\ ~empty(sales_df)
    /\ d_result.objects[Len(d_result.objects)] = TablePane(sales_df)
    /\ d_result.objects[Len(d_result.objects) - 1] = CloseAlert(close_error)

\* The callees of a build, in the order of the source.
StepOrder == <<"get_hana_connection", "get_sales_data", "close">>

\* C10: a build is one pass in a fixed order: its calls are a prefix of
\* get_hana_connection, get_sales_data, close (each at most once, close only
\* after the fetch); a connection is attempted only when a user is present;
\* get_sales_data is called only when the connection attempt returned a
\* handle, never when it returned None; and once the build has finished,
\* nothing of it changes until another build is called.
C10_OnePass ==
    /\ [](/\ Len(d_calls) <= Len(StepOrder)
          /\ d_calls = SubSeq(StepOrder, 1, Len(d_calls))
          /\ d_calls # <<>> => d_user # None
          /\ Count("get_sales_data") > 0 => hana_conn \in Handles)
    /\ [][d_pc = "done" => (builds' = builds + 1 \/ UNCHANGED dashVars)]_vars

\* A second build found no connection and returned after that single call.
C10_Witness ==
    /\ Returned
    /\ builds > 1
    /\ d_user # None
    /\ hana_conn = None
    /\ d_calls = <<"get_hana_connection">>
    /\ d_result.kind = "Column"

Text(chars) == [t |-> "str", v |-> chars]

\* What HANA_PORT is seen to hold when it is set.
PortTexts ==
    {<<>>,
     <<"3", "0", "0", "1", "5">>,
     <<"4", "4", "3">>,
     <<" ", "8", "0">>,
     <<"-", "1">>,
     <<"3", ".", "5">>,
     <<"n", "o", "t", "a", "n", "i", "n", "t">>}

\* What os.getenv returns for the four names: None for a name that is not
\* set, else its value, which may be empty.
Environs ==
    [HANA_ADDRESS : {None, Text(<<>>), Text(<<"t", "e", "s", "t", "h", "o", "s", "t">>)},
     HANA_PORT : {None} \cup {Text(chars) : chars \in PortTexts},
     HANA_USER : {None, Text(<<>>), Text(<<"t", "e", "s", "t", "u", "s", "e", "r">>)},
     HANA_PASSWORD : {None, Text(<<>>), Text(<<"p", "w">>)}]

\* A variant that takes every value that is set, an empty one too.
is_set(value) == value # None

\* bool(value) of an os.getenv result, as all([...]) takes it.
truthy(value) == value # None /\ value.v # <<>>

DigitChars == <<"0", "1", "2", "3", "4", "5", "6", "7", "8", "9">>

DigitValue(c) == (CHOOSE i \in DOMAIN DigitChars : DigitChars[i] = c) - 1

IsDigit(c) == \E i \in DOMAIN DigitChars : DigitChars[i] = c

\* str.strip() for blanks.
RECURSIVE strip(_)
strip(chars) ==
    IF chars = <<>> THEN <<>>
    ELSE IF Head(chars) = " " THEN strip(Tail(chars))
    ELSE IF chars[Len(chars)] = " " THEN strip(SubSeq(chars, 1, Len(chars) - 1))
    ELSE chars

RECURSIVE DigitsValue(_)
DigitsValue(digits) ==
    IF digits = <<>> THEN 0
    ELSE 10 * DigitsValue(SubSeq(digits, 1, Len(digits) - 1))
         + DigitValue(digits[Len(digits)])

\* int(port) of a str: blanks around, one sign, then decimal digits; anything
\* else is a ValueError.
int(chars) ==
    LET stripped == strip(chars)
        signed == stripped # <<>> /\ Head(stripped) \in {"+", "-"}
        digits == IF signed THEN Tail(stripped) ELSE stripped
    IN  IF digits = <<>> \/ \E i \in DOMAIN digits : ~IsDigit(digits[i])
        THEN ValueError
        ELSE [t |-> "int",
              v |-> IF signed /\ Head(stripped) = "-"
                    THEN 0 - DigitsValue(digits) ELSE DigitsValue(digits)]

\* What ConnectionContext(address=..., port=..., user=..., password=...)
\* does: returns a handle, or raises.
EstablishOutcomes == Handles \cup {Raised(e) : e \in ErrorTexts}

\* get_hana_connection() in an environment; establish is what
\* ConnectionContext(...) does if it is called.
get_hana_connection(environ, establish) ==
    LET address == environ.HANA_ADDRESS
        port == environ.HANA_PORT
        user == environ.HANA_USER
        password == environ.HANA_PASSWORD
    IN  /\ g_env' = environ
        /\ IF ~(truthy(address) /\ truthy(port) /\ truthy(user)
                /\ truthy(password))
           THEN g_made' = <<>> /\ g_result' = None
           ELSE IF int(port.v) = ValueError
           THEN g_made' = <<>> /\ g_result' = None
           ELSE /\ g_made' = <<[address |-> address, port |-> int(port.v),
                                user |-> user, password |-> password,
                                outcome |-> establish]>>
                /\ g_result' = IF establish.t = "raise" THEN None
                               ELSE establish
        /\ UNCHANGED <<authVars, dashVars, f_call>>

\* pd.DataFrame(mock_data) of get_customer_data
MockCustomerFrame ==
    [columns |-> <<"CustomerID", "Name", "Segment">>,
     rows |-> << <<101, "Alice Smith", "Retail">>,
                 <<102, "Bob Johnson", "Wholesale">>,
                 <<103, "Charlie Brown", "Retail">>,
                 <<104, "Diana Prince", "Corporate">>,
                 <<105, "Edward King", "Retail">> >>]

\* A variant that hands out the mock table with or without a handle.
get_customer_data_always(cc) == MockCustomerFrame

\* get_customer_data(cc)
get_customer_data(cc) ==
    IF cc = None THEN EmptyFrame ELSE MockCustomerFrame

\* The handles the fetch functions are called with: None, and the handles.
FetchArgs == {None} \cup Handles

GetSalesData(cc) ==
    /\ f_call' = [op |-> "get_sales_data", cc |-> cc,
                  result |-> get_sales_data(cc)]
    /\ UNCHANGED <<authVars, dashVars, g_env, g_made, g_result>>

GetCustomerData(cc) ==
    /\ f_call' = [op |-> "get_customer_data", cc |-> cc,
                  result |-> get_customer_data(cc)]
    /\ UNCHANGED <<authVars, dashVars, g_env, g_made, g_result>>

NextConnector ==
    \/ \E environ \in Environs, establish \in EstablishOutcomes :
            get_hana_connection(environ, establish)
    \/ \E cc \in FetchArgs : GetSalesData(cc)
    \/ \E cc \in FetchArgs : GetCustomerData(cc)

SpecConnector == InitDash /\ [][NextConnector]_vars

(***************************************************************************)
(* C11, C13                                                                *)
(***************************************************************************)
\* The parameter is present in the environment and is not empty.
Present(value) == value # None /\ Len(value.v) > 0

\* The text is blanks, at most one sign, at least one decimal digit and
\* nothing else, and blanks.
ParsesAsInteger(chars) ==
    \E lead, trail \in 0..Len(chars) :
        /\ lead + trail < Len(chars)
        /\ \A i \in 1..lead : chars[i] = " "
        /\ \A i \in (Len(chars) - trail + 1)..Len(chars) : chars[i] = " "
        /\ LET first == chars[lead + 1]
               from == IF first \in {"+", "-"} THEN lead + 2 ELSE lead + 1
           IN  /\ from <= Len(chars) - trail
               /\ \A i \in from..(Len(chars) - trail) : IsDigit(chars[i])

\* C11: get_hana_connection returns a handle exactly when all four
\* parameters are present and non-empty, the port parses as an integer and
\* ConnectionContext(...) returns (then it returns that handle, made from the
\* four parameters with the port as an integer); in every other case it
\* returns None and never raises; with a parameter missing or empty, or a
\* port that does not parse, ConnectionContext is not called at all, and
\* otherwise it is called once.
C11_HandleIffAllGood ==
    g_result # NotReturned =>
        LET complete == \A name \in DOMAIN g_env : Present(g_env[name])
            parses == complete /\ ParsesAsInteger(g_env.HANA_PORT.v)
        IN  /\ g_result \in Handles \cup {None}
            /\ g_result \in Handles
                 <=> (parses /\ g_made[1].outcome \in Handles)
            /\ g_result \in Handles => g_result = g_made[1].outcome
            /\ ~parses => g_made = <<>>
            /\ parses => /\ Len(g_made) = 1
                         /\ g_made[1].address = g_env.HANA_ADDRESS
                         /\ g_made[1].user = g_env.HANA_USER
                         /\ g_made[1].password = g_env.HANA_PASSWORD
                         /\ g_made[1].port.t = "int"

\* The environment of test_hana_connector.py gave a handle made with the
\* port as the integer 30015.
C11_Witness ==
    /\ g_result \in Handles
    /\ g_env.HANA_PORT = Text(<<"3", "0", "0", "1", "5">>)
    /\ g_made[1].port = [t |-> "int", v |-> 30015]

\* C13: get_sales_data and get_customer_data return an empty table exactly
\* when the handle is None; for a handle each returns its fixed mock table of
\* five rows, the same on every call and for every handle.
C13_EmptyIffAbsent ==
    f_call # NoCall =>
        /\ empty(f_call.result) <=> f_call.cc = None
        /\ f_call.cc # None =>
              /\ Len(f_call.result.rows) = 5
              /\ f_call.result = IF f_call.op = "get_sales_data"
                                 THEN MockSalesFrame ELSE MockCustomerFrame
        /\ f_call.cc = None => f_call.result = EmptyFrame

\* get_customer_data was called with a handle and returned its five rows.
C13_Witness ==
    /\ f_call # NoCall
    /\ f_call.op = "get_customer_data"
    /\ f_call.cc \in Handles
    /\ Len(f_call.result.rows) = 5
    /\ f_call.result.columns = <<"CustomerID", "Name", "Segment">>

Next ==
    \/ NextPw \/ NextUsers \/ NextSessions \/ NextAuth \/ NextModes
    \/ NextDash \/ NextConnector

Spec == Init /\ [][Next]_vars

====
